---- MODULE Spec2Model ----
(***************************************************************************)
(* Residential energy simulation (world.py, house.py, person.py).          *)
(*                                                                         *)
(* Fixed-point units: energy in 1/100 kWh, temperature in 1/100 degree C,  *)
(* insulation and random.random() in 1/100.  Room 0 stands for None.       *)
(*                                                                         *)
(* The repository holds two Person classes: the one in house.py, which     *)
(* House._create_occupants instantiates, and the one in person.py.  The    *)
(* variable person_class says which one the occupants are instances of.    *)
(***************************************************************************)
EXTENDS Integers, Sequences, FiniteSets, TLC

VARIABLES
    person_class,            \* "house" (house.py Person) or "person" (person.py Person)
    weather_scenario,        \* ResidentialEnergyModel.weather_scenario
    simulation_days,         \* ResidentialEnergyModel.simulation_days
    num_occupants,           \* len(House.occupants)
    insulation_quality,      \* House.insulation_quality
    hour_of_day,             \* ResidentialEnergyModel.hour_of_day
    current_day,             \* ResidentialEnergyModel.current_day
    total_energy_consumed,   \* ResidentialEnergyModel.total_energy_consumed
    daily_consumption,       \* ResidentialEnergyModel.daily_consumption
    datacollector,           \* records collected by ResidentialEnergyModel.datacollector
    schedule_steps,          \* ResidentialEnergyModel.schedule.steps
    is_on,                   \* Appliance.is_on, per appliance
    hours_used,              \* Appliance.hours_used, per appliance
    total_consumption,       \* Appliance.total_consumption, per appliance
    house_rooms,             \* House.rooms (a list of rooms)
    occupants,               \* Room.occupants (a list), per room
    temperature,             \* Room.temperature, per room
    current_room,            \* Person.current_room, per person (0 = None)
    is_home,                 \* Person.is_home, per person
    energy_conscious,        \* Person.energy_conscious, per person
    error,                   \* exception that escaped to the caller ("none" if none)
    pc,                      \* position of the caller: "idle", "scheduling", "collect", "aborted"
    queue,                   \* agents the scheduler has still to step in this tick
    stepped,                 \* agents the scheduler has stepped in this tick
    loop_left,               \* iterations run_simulation's for loop has still to make
    runs,                    \* number of run_simulation calls made
    rng,                     \* state of the module-level random source
    shuffle_rng,             \* state of model.random, the scheduler's source
    calls,                   \* number of direct calls made (direct-call specification)
    last_call,               \* the latest direct call (history): method, receiver, argument,
                             \* and whether it repeats the call before it
    tick_start,              \* snapshot taken when the tick began (history)
    consumption_by_appliance, \* model.consumption_by_appliance, by appliance type
    summary                  \* what the calls of get_summary_statistics returned (history)

vars == <<person_class, weather_scenario, simulation_days, num_occupants,
          insulation_quality, hour_of_day, current_day, total_energy_consumed,
          daily_consumption, datacollector, schedule_steps, is_on, hours_used,
          total_consumption, house_rooms, occupants, temperature, current_room, is_home,
          energy_conscious, error, pc, queue, stepped, loop_left, runs, rng,
          shuffle_rng, calls, last_call, tick_start, consumption_by_appliance,
          summary>>

----------------------------------------------------------------------------
(* Bounds of the model *)

MaxSeed == 3          \* seeds of the random source: 1..MaxSeed
MaxShuffleSeed == 2   \* seeds of the scheduler's source: 1..MaxShuffleSeed
MaxDays == 1          \* simulation_days ranges over 1..MaxDays
MaxRuns == 2          \* run_simulation is called at most MaxRuns times
MaxCalls == 3         \* direct calls made in the direct-call specification
MaxSummaries == 2     \* get_summary_statistics is called at most MaxSummaries times

----------------------------------------------------------------------------
(* Program constants *)

steps_per_day == 24
avg_occupants_per_house == 2
avg_insulation_quality == 50
energy_price_per_kwh == 15
base_temperature == 1500

\* house.py Appliance.POWER_CONSUMPTION, in 1/100 kW
POWER_CONSUMPTION(t) ==
    CASE t = "refrigerator"    -> 15
      [] t = "stove"           -> 250
      [] t = "washing machine" -> 150
      [] t = "dishwasher"      -> 180
      [] t = "tv"              -> 15
      [] t = "computer"        -> 20
      [] t = "lights"          -> 6
      [] t = "heater"          -> 200
      [] t = "air conditioner" -> 250
      [] t = "water heater"    -> 300
      [] t = "mobile charger"  -> 1

\* house.py ApplianceType
ApplianceTypes ==
    {"refrigerator", "stove", "washing machine", "dishwasher", "tv", "computer",
     "lights", "heater", "air conditioner", "water heater", "mobile charger"}

\* House._create_rooms: room_configs, (room_type, has_window)
room_configs ==
    << [room_type |-> "kitchen",     has_window |-> TRUE],
       [room_type |-> "living room", has_window |-> TRUE],
       [room_type |-> "bedroom",     has_window |-> TRUE],
       [room_type |-> "bedroom",     has_window |-> TRUE],
       [room_type |-> "bathroom",    has_window |-> FALSE],
       [room_type |-> "hallway",     has_window |-> FALSE] >>

Rooms == 1..Len(room_configs)

room_type(r) == room_configs[r].room_type

\* House._add_appliances_to_room: appliances_by_room
appliances_by_room(t) ==
    CASE t = "kitchen"     -> <<"refrigerator", "stove", "dishwasher", "lights">>
      [] t = "living room" -> <<"tv", "lights", "air conditioner">>
      [] t = "bedroom"     -> <<"lights", "computer", "mobile charger", "heater">>
      [] t = "bathroom"    -> <<"lights", "water heater">>
      [] t = "hallway"     -> <<"lights">>
      [] OTHER             -> << >>

\* The appliances in creation order: rooms in room_configs order, each room's
\* appliances in appliances_by_room order.
RECURSIVE ApplianceList(_)
ApplianceList(r) ==
    IF r = 0 THEN << >>
    ELSE ApplianceList(r - 1) \o
         [i \in 1..Len(appliances_by_room(room_type(r))) |->
             [appliance_type |-> appliances_by_room(room_type(r))[i], room |-> r]]

appliance_table == ApplianceList(Len(room_configs))

Appliances == 1..Len(appliance_table)

appliance_type(a) == appliance_table[a].appliance_type

appliance_room(a) == appliance_table[a].room

power_consumption(a) == POWER_CONSUMPTION(appliance_type(a))

\* Room.appliances, as a sequence in creation order
RoomAppliances(r) == SelectSeq([a \in Appliances |-> a], LAMBDA a : appliance_room(a) = r)

Persons == 1..num_occupants

----------------------------------------------------------------------------
(* The objects' state as one record, so that a method is an operator from  *)
(* the state before the call to the state after it.                        *)

World ==
    [ person_class |-> person_class, hour_of_day |-> hour_of_day,
      current_day |-> current_day, weather_scenario |-> weather_scenario,
      insulation_quality |-> insulation_quality,
      total_energy_consumed |-> total_energy_consumed,
      is_on |-> is_on, hours_used |-> hours_used,
      total_consumption |-> total_consumption, house_rooms |-> house_rooms,
      occupants |-> occupants, temperature |-> temperature,
      current_room |-> current_room, is_home |-> is_home,
      energy_conscious |-> energy_conscious, error |-> error ]

SetWorld(w) ==
    /\ total_energy_consumed' = w.total_energy_consumed
    /\ is_on' = w.is_on
    /\ hours_used' = w.hours_used
    /\ total_consumption' = w.total_consumption
    /\ occupants' = w.occupants
    /\ temperature' = w.temperature
    /\ current_room' = w.current_room
    /\ is_home' = w.is_home
    /\ energy_conscious' = w.energy_conscious
    /\ error' = w.error
    /\ UNCHANGED <<person_class, hour_of_day, current_day, weather_scenario,
                   insulation_quality, house_rooms>>

\* An exception leaves the method that raised it and every caller up to the
\* one that catches it; nothing in these classes catches AttributeError.
Raise(w, e) == [w EXCEPT !.error = e]

Failed(w) == w.error # "none"

----------------------------------------------------------------------------
(* house.py: Appliance *)

\* an appliance created off whatever its type
Appliance_init_off(a) == FALSE

\* Appliance.__init__: the initial is_on
Appliance_init_is_on(a) == appliance_type(a) \in {"refrigerator", "water heater"}

\* turn_on switching the appliance over instead of on
turn_on_toggle(w, a) == [w EXCEPT !.is_on[a] = ~@]

\* Appliance.turn_on
turn_on(w, a) == [w EXCEPT !.is_on[a] = TRUE]

\* turn_off without the test of the appliance's type
turn_off_unguarded(w, a) == [w EXCEPT !.is_on[a] = FALSE]

\* Appliance.turn_off
turn_off(w, a) ==
    IF appliance_type(a) \notin {"refrigerator", "water heater"}
    THEN [w EXCEPT !.is_on[a] = FALSE]
    ELSE w

\* step adding the hour's consumption to the model's total alone
Appliance_step_untracked(w, a) ==
    IF w.is_on[a]
    THEN [w EXCEPT !.hours_used[a] = @ + 1,
                   !.total_energy_consumed = @ + power_consumption(a)]
    ELSE w

\* step subtracting the hour's consumption from the model's total
Appliance_step_refund(w, a) ==
    IF w.is_on[a]
    THEN [w EXCEPT !.total_consumption[a] = @ + power_consumption(a),
                   !.hours_used[a] = @ + 1,
                   !.total_energy_consumed = @ - power_consumption(a)]
    ELSE w

\* Appliance.step
Appliance_step(w, a) ==
    IF w.is_on[a]
    THEN [w EXCEPT !.total_consumption[a] = @ + power_consumption(a),
                   !.hours_used[a] = @ + 1,
                   !.total_energy_consumed = @ + power_consumption(a)]
    ELSE w

\* for appliance in room.appliances: if appliance.appliance_type in types: appliance.turn_on()
RECURSIVE TurnOnEach(_, _)
TurnOnEach(w, seq) ==
    IF seq = << >> THEN w ELSE TurnOnEach(turn_on(w, Head(seq)), Tail(seq))

\* for appliance in room.appliances: if appliance.appliance_type in types: appliance.turn_off()
RECURSIVE TurnOffEach(_, _)
TurnOffEach(w, seq) ==
    IF seq = << >> THEN w ELSE TurnOffEach(turn_off(w, Head(seq)), Tail(seq))

\* the appliances of a room whatever their type
OfType_any(r, types) == RoomAppliances(r)

\* The appliances of room r whose type is in types, in the room's list order
OfType(r, types) ==
    SelectSeq(RoomAppliances(r), LAMBDA a : appliance_type(a) \in types)

----------------------------------------------------------------------------
(* house.py: Room *)

\* The attributes Room.__init__ stores on a room.  House._create_rooms calls
\* Room(id, model, room_type, has_window), so has_window arrives as the
\* `temperature` parameter and no attribute named has_window exists.
Room_attributes ==
    {"unique_id", "model", "room_type", "temperature", "window_area",
     "lights_on", "occupants", "appliances"}

\* Room.temperature after House._create_rooms: the bool has_window (True is 1.0)
Room_init_temperature(r) == IF room_configs[r].has_window THEN 100 ELSE 0

\* Room.update_temperature
RECURSIVE HeatCool(_, _, _)
HeatCool(w, t, seq) ==
    IF seq = << >> THEN t
    ELSE LET a == Head(seq)
         IN IF appliance_type(a) = "heater" /\ w.is_on[a]
            THEN HeatCool(w, t + 50, Tail(seq))
            ELSE IF appliance_type(a) = "air conditioner" /\ w.is_on[a]
            THEN HeatCool(w, t - 50, Tail(seq))
            ELSE HeatCool(w, t, Tail(seq))

\* the exchange with the outside taking 2 - house_insulation as its rate
Blend_overshoot(t, external_temp, house_insulation) ==
    LET exchange_rate == 200 - house_insulation
        temp_diff == external_temp - t
    IN t + (temp_diff * exchange_rate) \div 100

Blend(t, external_temp, house_insulation) ==
    LET exchange_rate == 100 - house_insulation
        temp_diff == external_temp - t
    IN t + (temp_diff * exchange_rate) \div 100

update_temperature(w, r, external_temp, house_insulation) ==
    [w EXCEPT !.temperature[r] =
        HeatCool(w, Blend(@, external_temp, house_insulation), RoomAppliances(r))]

\* Room.step
Room_step(w, r) == w

----------------------------------------------------------------------------
(* house.py: House *)

\* House.get_room_by_type: the first room of that type, or None
RECURSIVE FirstOfType(_, _)
\* get_room_by_type returning the house's first room when none has the type
get_room_by_type_fallback(w, t) ==
    IF \E i \in 1..Len(w.house_rooms) : room_type(w.house_rooms[i]) = t
    THEN (CHOOSE r \in Rooms : \E i \in 1..Len(w.house_rooms) :
              /\ w.house_rooms[i] = r /\ room_type(r) = t
              /\ \A j \in 1..(i - 1) : room_type(w.house_rooms[j]) # t)
    ELSE IF w.house_rooms = << >> THEN 0 ELSE Head(w.house_rooms)

FirstOfType(seq, t) ==
    IF seq = << >> THEN 0
    ELSE IF room_type(Head(seq)) = t THEN Head(seq)
    ELSE FirstOfType(Tail(seq), t)

get_room_by_type(w, t) == FirstOfType(w.house_rooms, t)

----------------------------------------------------------------------------
(* house.py and person.py: Person *)

\* a routine that sends the occupants to bed at 18
generate_routine_no_evening(class, h) ==
    IF class = "person"
    THEN CASE h \in 0..6   -> "sleeping"
           [] h \in 7..8   -> "morning_routine"
           [] h \in 9..11  -> "away"
           [] h \in 12..13 -> "lunch"
           [] h \in 14..17 -> "away"
           [] OTHER        -> "sleeping"
    ELSE CASE h \in 0..6   -> "sleeping"
           [] h \in 7..8   -> "morning_routine"
           [] h \in 9..17  -> "away"
           [] OTHER        -> "sleeping"

\* _generate_routine (person.py) and Person._generate_routine (house.py)
generate_routine(class, h) ==
    IF class = "person"
    THEN CASE h \in 0..6   -> "sleeping"
           [] h \in 7..8   -> "morning_routine"
           [] h \in 9..11  -> "away"
           [] h \in 12..13 -> "lunch"
           [] h \in 14..17 -> "away"
           [] h \in 18..21 -> "evening_activities"
           [] h \in 22..23 -> "sleeping"
           [] OTHER        -> "evening_activities"
    ELSE CASE h \in 0..6   -> "sleeping"
           [] h \in 7..8   -> "morning_routine"
           [] h \in 9..17  -> "away"
           [] h \in 18..21 -> "evening_activities"
           [] h \in 22..23 -> "sleeping"
           [] OTHER        -> "evening_activities"

\* list.remove(x): drops the first occurrence of x
RECURSIVE ListRemove(_, _)
ListRemove(seq, x) ==
    IF seq = << >> THEN << >>
    ELSE IF Head(seq) = x THEN Tail(seq)
    ELSE <<Head(seq)>> \o ListRemove(Tail(seq), x)

InList(seq, x) == \E i \in 1..Len(seq) : seq[i] = x

\* self.current_room.occupants.remove(self): house.py lets ValueError escape,
\* person.py catches it
RemoveOccupant(w, p) ==
    LET cur == w.current_room[p]
    IN IF InList(w.occupants[cur], p)
       THEN [w EXCEPT !.occupants[cur] = ListRemove(@, p)]
       ELSE IF w.person_class = "house" THEN Raise(w, "ValueError") ELSE w

\* room.occupants.append(self): person.py appends only when not yet a member
AppendOccupant(w, p, room) ==
    IF w.person_class = "person" /\ InList(w.occupants[room], p)
    THEN w
    ELSE [w EXCEPT !.occupants[room] = Append(@, p)]

\* The last operand of `hour < 7 or hour > 19 or (not room.has_window)`:
\* house.py reads room.has_window, person.py getattr(room, "has_window", True).
\* "raise" stands for the AttributeError of reading a missing attribute.
NotHasWindow(w, room) ==
    IF "has_window" \in Room_attributes
    THEN IF room_configs[room].has_window THEN "false" ELSE "true"
    ELSE IF w.person_class = "house" THEN "raise" ELSE "false"

\* move_to_room, from `self.current_room = room` on
EnterRoom(w, p, room) ==
    LET w1 == AppendOccupant([w EXCEPT !.current_room[p] = room], p, room)
        hour == w.hour_of_day
        lights == TurnOnEach(w1, OfType(room, {"lights"}))
    IN IF hour < 7 \/ hour > 19 THEN lights
       ELSE CASE NotHasWindow(w1, room) = "raise" -> Raise(w1, "AttributeError")
              [] NotHasWindow(w1, room) = "true"  -> lights
              [] OTHER                            -> w1

\* Person.move_to_room
move_to_room(w, p, room) ==
    LET cur == w.current_room[p]
    IN IF cur # 0 /\ cur # room
       THEN LET w1 == RemoveOccupant(w, p)
                w2 == IF w1.energy_conscious[p] /\ w1.occupants[cur] = << >>
                      THEN TurnOffEach(w1, OfType(cur, {"lights"}))
                      ELSE w1
            IN IF Failed(w1) THEN w1 ELSE EnterRoom(w2, p, room)
       ELSE EnterRoom(w, p, room)

\* perform_activity, branch "sleeping"
Sleeping_always_moves(w, p) ==
    LET bedroom == get_room_by_type(w, "bedroom")
    IN IF bedroom # 0 THEN move_to_room(w, p, bedroom) ELSE w

Sleeping(w, p) ==
    LET bedroom == get_room_by_type(w, "bedroom")
    IN IF bedroom # 0 /\ w.current_room[p] # bedroom
       THEN move_to_room(w, p, bedroom)
       ELSE w

\* leaving the house switching off what cooks, washes, plays and charges
Away_switching_off(w, p) ==
    LET w1 == IF w.current_room[p] # 0
              THEN LET w0 == RemoveOccupant(w, p)
                   IN IF Failed(w0) THEN w0 ELSE [w0 EXCEPT !.current_room[p] = 0]
              ELSE w
    IN IF Failed(w1) THEN w1
       ELSE TurnOffEach([w1 EXCEPT !.is_home[p] = FALSE],
                        SelectSeq([a \in Appliances |-> a],
                                  LAMBDA a : appliance_type(a) \in
                                      {"stove", "dishwasher", "tv", "mobile charger"}))

\* perform_activity, branch "away"
Away(w, p) ==
    LET w1 == IF w.current_room[p] # 0
              THEN LET w0 == RemoveOccupant(w, p)
                   IN IF Failed(w0) THEN w0 ELSE [w0 EXCEPT !.current_room[p] = 0]
              ELSE w
    IN IF Failed(w1) THEN w1 ELSE [w1 EXCEPT !.is_home[p] = FALSE]

\* perform_activity, branch "morning_routine"; d[1], d[2] are the values of the
\* random.random() calls in call order
MorningRoutine(w, p, d) ==
    LET hour == w.hour_of_day
        w0 == [w EXCEPT !.is_home[p] = TRUE]
        bathroom == get_room_by_type(w0, "bathroom")
        w1 == IF d[1] > 50 /\ bathroom # 0 THEN move_to_room(w0, p, bathroom) ELSE w0
        kitchen == get_room_by_type(w1, "kitchen")
        w2 == move_to_room(w1, p, kitchen)
    IN IF Failed(w1) THEN w1
       ELSE IF 7 <= hour /\ hour <= 8 /\ kitchen # 0
       THEN IF Failed(w2) THEN w2
            ELSE IF d[2] > 70 THEN TurnOnEach(w2, OfType(kitchen, {"stove"})) ELSE w2
       ELSE w1

\* perform_activity, branch "lunch" (person.py only)
Lunch(w, p, d) ==
    LET w0 == [w EXCEPT !.is_home[p] = TRUE]
        kitchen == get_room_by_type(w0, "kitchen")
        w1 == move_to_room(w0, p, kitchen)
    IN IF d[1] > 40 /\ kitchen # 0
       THEN IF Failed(w1) THEN w1
            ELSE IF d[2] > 50 THEN TurnOnEach(w1, OfType(kitchen, {"stove"})) ELSE w1
       ELSE w0

\* The last hour of dinner time: `19 <= hour <= 20` in house.py, `<= 21` in person.py
DinnerEnd(class) == IF class = "person" THEN 21 ELSE 20

\* perform_activity, branch "evening_activities"
EveningActivities(w, p, d) ==
    LET hour == w.hour_of_day
        w0 == [w EXCEPT !.is_home[p] = TRUE]
        kitchen == get_room_by_type(w0, "kitchen")
        living_room == get_room_by_type(w0, "living room")
        k1 == move_to_room(w0, p, kitchen)
        k2 == TurnOnEach(k1, OfType(kitchen, {"stove"}))
        k3 == IF d[1] > 80 THEN TurnOnEach(k2, OfType(kitchen, {"dishwasher"})) ELSE k2
        l1 == move_to_room(w0, p, living_room)
        l2 == IF d[1] > 30 THEN TurnOnEach(l1, OfType(living_room, {"tv"})) ELSE l1
        w1 == IF 19 <= hour /\ hour <= DinnerEnd(w.person_class)
              THEN IF kitchen = 0 THEN w0 ELSE IF Failed(k1) THEN k1 ELSE k3
              ELSE IF living_room = 0 THEN w0 ELSE IF Failed(l1) THEN l1 ELSE l2
        chargers == [i \in 1..Len(w.house_rooms) |-> OfType(w.house_rooms[i], {"mobile charger"})]
    IN IF Failed(w1) THEN w1
       ELSE IF d[2] > 70
       THEN LET RECURSIVE AllRooms(_, _)
                AllRooms(v, i) ==
                    IF i > Len(chargers) THEN v
                    ELSE AllRooms(TurnOnEach(v, chargers[i]), i + 1)
            IN AllRooms(w1, 1)
       ELSE w1

\* Person.perform_activity
perform_activity(w, p, activity, d) ==
    CASE activity = "sleeping"           -> Sleeping(w, p)
      [] activity = "away"               -> Away(w, p)
      [] activity = "morning_routine"    -> MorningRoutine(w, p, d)
      [] activity = "lunch" /\ w.person_class = "person" -> Lunch(w, p, d)
      [] activity = "evening_activities" -> EveningActivities(w, p, d)
      [] OTHER                           -> w

\* The comfort band of respond_to_temperature: 18..26 in house.py, 17..23 in person.py
TempLow(class) == IF class = "person" THEN 1700 ELSE 1800

TempHigh(class) == IF class = "person" THEN 2300 ELSE 2600

\* respond_to_temperature switching every heater off for a person who is
\* away or in no room
respond_to_temperature_absent(w, p) ==
    LET room == w.current_room[p]
        temp == w.temperature[room]
    IN IF ~w.is_home[p] \/ room = 0
       THEN TurnOffEach(w, SelectSeq([a \in Appliances |-> a],
                                     LAMBDA a : appliance_type(a) = "heater"))
       ELSE IF temp < TempLow(w.person_class)
       THEN TurnOnEach(w, OfType(room, {"heater"}))
       ELSE IF temp > TempHigh(w.person_class)
       THEN TurnOnEach(w, OfType(room, {"air conditioner"}))
       ELSE TurnOffEach(w, OfType(room, {"heater", "air conditioner"}))

\* respond_to_temperature taking a temperature equal to the low threshold
\* for too cold and one equal to the high threshold for too hot
respond_to_temperature_inclusive(w, p) ==
    LET room == w.current_room[p]
        temp == w.temperature[room]
    IN IF ~w.is_home[p] \/ room = 0 THEN w
       ELSE IF temp <= TempLow(w.person_class)
       THEN TurnOnEach(w, OfType(room, {"heater"}))
       ELSE IF temp >= TempHigh(w.person_class)
       THEN TurnOnEach(w, OfType(room, {"air conditioner"}))
       ELSE TurnOffEach(w, OfType(room, {"heater", "air conditioner"}))

\* Person.respond_to_temperature
respond_to_temperature(w, p) ==
    LET room == w.current_room[p]
        temp == w.temperature[room]
    IN IF ~w.is_home[p] \/ room = 0 THEN w
       ELSE IF temp < TempLow(w.person_class)
       THEN TurnOnEach(w, OfType(room, {"heater"}))
       ELSE IF temp > TempHigh(w.person_class)
       THEN TurnOnEach(w, OfType(room, {"air conditioner"}))
       ELSE TurnOffEach(w, OfType(room, {"heater", "air conditioner"}))

\* Person.step
Person_step(w, p, d) ==
    LET activity == generate_routine(w.person_class, w.hour_of_day)
        w1 == perform_activity(w, p, activity, d)
    IN IF Failed(w1) THEN w1 ELSE respond_to_temperature(w1, p)

----------------------------------------------------------------------------
(* world.py: weather *)

\* 5 * np.sin(k * np.pi / 12), k = 0..23, in 1/100
FiveSin12_lagged ==
    << -500, -483, -433, -354, -250, -129, 0, 129, 250, 354, 433, 483,
       500, 483, 433, 354, 250, 129, 0, -129, -250, -354, -433, -483 >>

FiveSin12 ==
    << 0, 129, 250, 354, 433, 483, 500, 483, 433, 354, 250, 129,
       0, -129, -250, -354, -433, -483, -500, -483, -433, -354, -250, -129 >>

\* 5 * np.sin(d * np.pi / 15), d = 0..29, in 1/100
FiveSin15 ==
    << 0, 104, 203, 294, 372, 433, 476, 497, 497, 476, 433, 372, 294, 203, 104,
       0, -104, -203, -294, -372, -433, -476, -497, -497, -476, -433, -372,
       -294, -203, -104 >>

Max(a, b) == IF a >= b THEN a ELSE b

Min(a, b) == IF a <= b THEN a ELSE b

\* get_current_weather with a base temperature of 19.0 for the heatwave
get_current_weather_mild(hour, day, scenario, noise) ==
    LET daily_variation == FiveSin12[((hour - 6) % 24) + 1]
        base_temp == CASE scenario = "heatwave"  -> 1900
                       [] scenario = "cold_snap" -> -500
                       [] OTHER -> base_temperature + FiveSin15[(day % 30) + 1]
        is_extreme == scenario \in {"heatwave", "cold_snap"}
    IN [ temperature |-> base_temp + daily_variation + noise,
         solar_radiation |-> Max(0, (160 * FiveSin12[((hour - 6) % 24) + 1]) \div 100),
         hour_of_day |-> hour,
         is_extreme_event |-> is_extreme ]

\* ResidentialEnergyModel.get_current_weather; noise is the value of random.gauss(0, 2)
get_current_weather(hour, day, scenario, noise) ==
    LET daily_variation == FiveSin12[((hour - 6) % 24) + 1]
        base_temp == CASE scenario = "heatwave"  -> 3500
                       [] scenario = "cold_snap" -> -500
                       [] OTHER -> base_temperature + FiveSin15[(day % 30) + 1]
        is_extreme == scenario \in {"heatwave", "cold_snap"}
    IN [ temperature |-> base_temp + daily_variation + noise,
         solar_radiation |-> Max(0, (160 * FiveSin12[((hour - 6) % 24) + 1]) \div 100),
         hour_of_day |-> hour,
         is_extreme_event |-> is_extreme ]

\* House.update_temperature / House.step
RECURSIVE UpdateRooms(_, _, _)
UpdateRooms(w, seq, external_temp) ==
    IF seq = << >> THEN w
    ELSE UpdateRooms(update_temperature(w, Head(seq), external_temp, w.insulation_quality),
                     Tail(seq), external_temp)

House_step(w, noise) ==
    LET weather == get_current_weather(w.hour_of_day, w.current_day,
                                       w.weather_scenario, noise)
    IN UpdateRooms(w, w.house_rooms, weather.temperature)

----------------------------------------------------------------------------
(* The random sources.  A source is a seeded generator: its state decides    *)
(* every later draw.  The generator is a small linear congruential one.     *)

NextRandom(x) == (x * 75 + 74) % 65537

RECURSIVE Advance(_, _)
Advance(x, n) == IF n = 0 THEN x ELSE Advance(NextRandom(x), n - 1)

\* The value of the n-th random.random() call from state x, in 1/100
RandomAt(x, n) == Advance(x, n) % 100

\* random.gauss(mu, sigma) as a function of the uniform value v behind it:
\* the deviation is a whole number of sigmas in -2..2
Gauss(mu, sigma, v) ==
    mu + sigma * (CASE v < 7 -> -2 [] v < 31 -> -1 [] v < 69 -> 0 [] v < 93 -> 1 [] OTHER -> 2)

----------------------------------------------------------------------------
(* Construction: ResidentialEnergyModel.__init__, House.__init__ *)

\* num_occupants = max(1, int(random.gauss(avg_occupants_per_house, 0.5)))
InitOccupants(v) == Max(1, Gauss(100 * avg_occupants_per_house, 50, v) \div 100)

\* insulation = max(0.1, min(1.0, random.gauss(avg_insulation_quality, 0.15)))
InitInsulation(v) == Max(10, Min(100, Gauss(avg_insulation_quality, 15, v)))

\* Person.__init__: energy_conscious = random.random() > 0.5
InitEnergyConscious(v) == v > 50

\* The fields every constructed model starts with, whatever the draws
Constructed ==
    /\ hour_of_day = 0
    /\ current_day = 0
    /\ total_energy_consumed = 0
    /\ daily_consumption = << >>
    /\ datacollector = << >>
    /\ schedule_steps = 0
    /\ is_on = [a \in Appliances |-> Appliance_init_is_on(a)]
    /\ hours_used = [a \in Appliances |-> 0]
    /\ total_consumption = [a \in Appliances |-> 0]
    /\ house_rooms = [r \in Rooms |-> r]
    /\ occupants = [r \in Rooms |-> << >>]
    /\ temperature = [r \in Rooms |-> Room_init_temperature(r)]
    /\ current_room = [p \in Persons |-> 0]
    /\ is_home = [p \in Persons |-> TRUE]
    /\ error = "none"
    /\ queue = << >>
    /\ stepped = {}
    /\ loop_left = 0
    /\ runs = 0
    /\ calls = 0
    /\ last_call = [method |-> "none", self |-> 0, arg |-> 0, repeat |-> FALSE]
    /\ tick_start = [total_energy_consumed |-> 0,
                     is_on |-> [a \in Appliances |-> Appliance_init_is_on(a)],
                     empty_rooms |-> Rooms]
    /\ consumption_by_appliance = [t \in ApplianceTypes |-> 0]
    /\ summary = << >>

Init ==
    /\ person_class \in {"house", "person"}
    /\ weather_scenario \in {"normal", "heatwave", "cold_snap"}
    /\ simulation_days \in 1..MaxDays
    /\ \E seed \in 1..MaxSeed :
          /\ num_occupants = InitOccupants(RandomAt(seed, 1))
          /\ insulation_quality = InitInsulation(RandomAt(seed, 2))
          /\ energy_conscious =
                [p \in 1..InitOccupants(RandomAt(seed, 1)) |->
                    InitEnergyConscious(RandomAt(seed, 2 + p))]
          /\ rng = Advance(seed, 2 + InitOccupants(RandomAt(seed, 1)))
    /\ shuffle_rng \in 1..MaxShuffleSeed
    /\ pc = "idle"
    /\ Constructed

----------------------------------------------------------------------------
(* The scheduler: mesa.time.RandomActivation *)

Agent(kind, id) == [kind |-> kind, id |-> id]

\* The agents in the order of schedule.add: each room followed by its
\* appliances, then the occupants, then the house
RECURSIVE RoomAgents(_)
RoomAgents(r) ==
    IF r = 0 THEN << >>
    ELSE RoomAgents(r - 1) \o <<Agent("room", r)>> \o
         [i \in 1..Len(RoomAppliances(r)) |-> Agent("appliance", RoomAppliances(r)[i])]

schedule_agents ==
    RoomAgents(Len(room_configs)) \o
    [p \in 1..num_occupants |-> Agent("person", p)] \o
    <<Agent("house", 1)>>

Reverse(seq) == [i \in 1..Len(seq) |-> seq[Len(seq) + 1 - i]]

Rotate(seq, k) == [i \in 1..Len(seq) |-> seq[((i - 1 + k) % Len(seq)) + 1]]

\* a shuffle listing every agent twice
Shuffle_doubled(seq, x) ==
    Rotate(seq, NextRandom(x) % Len(seq)) \o Rotate(seq, NextRandom(x) % Len(seq))

\* model.random.shuffle(agent_keys): the order is decided by the source's
\* state; the orders drawn are the rotations of the list and their reversals
Shuffle(seq, x) ==
    LET k == NextRandom(x) % Len(seq)
        rotated == Rotate(seq, k)
    IN IF (NextRandom(x) \div Len(seq)) % 2 = 0 THEN rotated ELSE Reverse(rotated)

EmptyRooms == {r \in Rooms : occupants[r] = << >>}

----------------------------------------------------------------------------
(* world.py: ResidentialEnergyModel.run_simulation and step *)

Frame == UNCHANGED <<person_class, weather_scenario, simulation_days, num_occupants,
                     insulation_quality, house_rooms, consumption_by_appliance, summary>>

ObjectsUnchanged ==
    UNCHANGED <<total_energy_consumed, is_on, hours_used, total_consumption,
                occupants, temperature, current_room, is_home, energy_conscious, error>>

\* run_simulation is called: total_steps = simulation_days * steps_per_day
RunSimulation ==
    /\ pc = "idle"
    /\ runs < MaxRuns
    /\ pc' = "loop"
    /\ loop_left' = simulation_days * steps_per_day
    /\ runs' = runs + 1
    /\ Frame /\ ObjectsUnchanged
    /\ UNCHANGED <<hour_of_day, current_day, daily_consumption, datacollector,
                   schedule_steps, queue, stepped, rng, shuffle_rng, calls, last_call, tick_start>>

\* `for _ in range(total_steps): self.step()`: step begins with
\* schedule.step(), which shuffles the agents
StepBegin ==
    /\ pc = "loop"
    /\ loop_left > 0
    /\ loop_left' = loop_left - 1
    /\ queue' = Shuffle(schedule_agents, shuffle_rng)
    /\ shuffle_rng' = NextRandom(shuffle_rng)
    /\ stepped' = {}
    /\ tick_start' = [total_energy_consumed |-> total_energy_consumed,
                      is_on |-> is_on, empty_rooms |-> EmptyRooms]
    /\ pc' = "scheduling"
    /\ Frame /\ ObjectsUnchanged
    /\ UNCHANGED <<hour_of_day, current_day, daily_consumption, datacollector,
                   schedule_steps, runs, rng, calls, last_call>>

\* What every agent step does to the scheduler: the agent leaves the queue;
\* an exception aborts the run
Scheduled(kind) ==
    /\ pc = "scheduling"
    /\ queue # << >>
    /\ Head(queue).kind = kind
    /\ queue' = Tail(queue)
    /\ stepped' = stepped \cup {Head(queue)}
    /\ pc' = IF error' = "none" THEN "scheduling" ELSE "aborted"
    /\ UNCHANGED <<simulation_days, num_occupants, daily_consumption, datacollector,
                   schedule_steps, loop_left, runs, shuffle_rng, calls, last_call,
                   tick_start, consumption_by_appliance, summary>>

\* schedule.step() reaches the house: House.step
HouseStep ==
    /\ pc = "scheduling" /\ queue # << >> /\ Head(queue).kind = "house"
    /\ SetWorld(House_step(World, Gauss(0, 200, RandomAt(rng, 1))))
    /\ rng' = Advance(rng, 1)
    /\ Scheduled("house")

\* schedule.step() reaches a room: Room.step
RoomStep ==
    /\ pc = "scheduling" /\ queue # << >> /\ Head(queue).kind = "room"
    /\ SetWorld(Room_step(World, Head(queue).id))
    /\ rng' = rng
    /\ Scheduled("room")

\* schedule.step() reaches an occupant: Person.step
PersonStep ==
    /\ pc = "scheduling" /\ queue # << >> /\ Head(queue).kind = "person"
    /\ SetWorld(Person_step(World, Head(queue).id, <<RandomAt(rng, 1), RandomAt(rng, 2)>>))
    /\ rng' = Advance(rng, 2)
    /\ Scheduled("person")

\* schedule.step() reaches an appliance: Appliance.step
ApplianceStep ==
    /\ pc = "scheduling" /\ queue # << >> /\ Head(queue).kind = "appliance"
    /\ SetWorld(Appliance_step(World, Head(queue).id))
    /\ rng' = rng
    /\ Scheduled("appliance")

\* "Average House Temp": np.mean of the rooms' temperatures
RECURSIVE SumTemperature(_)
SumTemperature(seq) ==
    IF seq = << >> THEN 0 ELSE temperature[Head(seq)] + SumTemperature(Tail(seq))

\* the record collected after the clock advanced
Collect_after_clock(noise) ==
    [ total_energy |-> total_energy_consumed,
      average_house_temp |-> SumTemperature(house_rooms) \div Len(house_rooms),
      external_temperature |->
          get_current_weather(hour_of_day, current_day, weather_scenario, noise).temperature,
      hour_of_day |-> (hour_of_day + 1) % 24,
      day |-> IF hour_of_day = 23 THEN current_day + 1 ELSE current_day,
      energy_cost |-> total_energy_consumed * energy_price_per_kwh ]

\* The record datacollector.collect(self) stores; noise is the random.gauss
\* value of the get_current_weather call of "External Temperature"
Collect(noise) ==
    [ total_energy |-> total_energy_consumed,
      average_house_temp |-> SumTemperature(house_rooms) \div Len(house_rooms),
      external_temperature |->
          get_current_weather(hour_of_day, current_day, weather_scenario, noise).temperature,
      hour_of_day |-> hour_of_day,
      day |-> current_day,
      energy_cost |-> total_energy_consumed * energy_price_per_kwh ]

\* the rest of step appending to daily_consumption at every hour
StepEnd_every_hour ==
    /\ pc = "scheduling"
    /\ queue = << >>
    /\ schedule_steps' = schedule_steps + 1
    /\ datacollector' = Append(datacollector, Collect(Gauss(0, 200, RandomAt(rng, 1))))
    /\ rng' = Advance(rng, 1)
    /\ hour_of_day' = (hour_of_day + 1) % 24
    /\ current_day' = IF hour_of_day' = 0 THEN current_day + 1 ELSE current_day
    /\ daily_consumption' = Append(daily_consumption, total_energy_consumed)
    /\ pc' = "loop"
    /\ ObjectsUnchanged
    /\ UNCHANGED <<person_class, weather_scenario, simulation_days, num_occupants,
                   insulation_quality, house_rooms, queue, stepped, loop_left, runs,
                   shuffle_rng, calls, last_call, tick_start, consumption_by_appliance,
                   summary>>

\* The rest of step once every agent was stepped: the scheduler counts the
\* step, the datacollector collects, the clock advances
StepEnd ==
    /\ pc = "scheduling"
    /\ queue = << >>
    /\ schedule_steps' = schedule_steps + 1
    /\ datacollector' = Append(datacollector, Collect(Gauss(0, 200, RandomAt(rng, 1))))
    /\ rng' = Advance(rng, 1)
    /\ hour_of_day' = (hour_of_day + 1) % 24
    /\ current_day' = IF hour_of_day' = 0 THEN current_day + 1 ELSE current_day
    /\ daily_consumption' = IF hour_of_day' = 0
                            THEN Append(daily_consumption, total_energy_consumed)
                            ELSE daily_consumption
    /\ pc' = "loop"
    /\ ObjectsUnchanged
    /\ UNCHANGED <<person_class, weather_scenario, simulation_days, num_occupants,
                   insulation_quality, house_rooms, queue, stepped, loop_left, runs,
                   shuffle_rng, calls, last_call, tick_start, consumption_by_appliance,
                   summary>>

\* run_simulation returns
RunDone ==
    /\ pc = "loop"
    /\ loop_left = 0
    /\ pc' = "idle"
    /\ Frame /\ ObjectsUnchanged
    /\ UNCHANGED <<hour_of_day, current_day, daily_consumption, datacollector,
                   schedule_steps, queue, stepped, loop_left, runs, rng, shuffle_rng,
                   calls, last_call, tick_start>>

\* round(n / d, 0) for n >= 0, d > 0: to the nearest, a tie to the even one
Round(n, d) ==
    LET q == n \div d
        r == n % d
    IN IF 2 * r < d THEN q
       ELSE IF 2 * r > d THEN q + 1
       ELSE IF q % 2 = 0 THEN q ELSE q + 1

RECURSIVE SumSeq(_)
SumSeq(seq) == IF seq = << >> THEN 0 ELSE Head(seq) + SumSeq(Tail(seq))

\* get_summary_statistics: `for house ... for room ... for appliance ...:
\* self.consumption_by_appliance[appliance.appliance_type] +=
\* appliance.total_consumption`, over the appliances a..Len(appliance_table)
RECURSIVE Accumulate(_, _)
Accumulate(by_type, a) ==
    IF a > Len(appliance_table) THEN by_type
    ELSE Accumulate([by_type EXCEPT ![appliance_type(a)] = @ + total_consumption[a]],
                    a + 1)

\* The dictionary get_summary_statistics returns, amounts in 1/100; steps is
\* the number of steps made when it was called (history)
SummaryStatistics(by_type) ==
    [ total_energy_kwh |-> total_energy_consumed,
      avg_daily_consumption_kwh |->
          IF daily_consumption # << >>
          THEN Round(SumSeq(daily_consumption), Len(daily_consumption))
          ELSE 0,
      total_cost_euros |-> Round(total_energy_consumed * energy_price_per_kwh, 100),
      avg_monthly_cost_euros |->
          Round(total_energy_consumed * energy_price_per_kwh * 30, 100 * simulation_days),
      consumption_by_appliance |->
          [t \in {u \in ApplianceTypes : by_type[u] > 0} |-> by_type[t]],
      simulation_days |-> simulation_days,
      steps |-> schedule_steps ]

\* get_summary_statistics is called between two runs
GetSummaryStatistics ==
    /\ pc = "idle"
    /\ Len(summary) < MaxSummaries
    /\ consumption_by_appliance' = Accumulate(consumption_by_appliance, 1)
    /\ summary' = Append(summary, SummaryStatistics(consumption_by_appliance'))
    /\ ObjectsUnchanged
    /\ UNCHANGED <<person_class, weather_scenario, simulation_days, num_occupants,
                   insulation_quality, house_rooms, hour_of_day, current_day,
                   daily_consumption, datacollector, schedule_steps, pc, queue, stepped,
                   loop_left, runs, rng, shuffle_rng, calls, last_call, tick_start>>

Next ==
    \/ RunSimulation
    \/ StepBegin
    \/ HouseStep
    \/ RoomStep
    \/ PersonStep
    \/ ApplianceStep
    \/ StepEnd
    \/ RunDone
    \/ GetSummaryStatistics

Spec == Init /\ [][Next]_vars

----------------------------------------------------------------------------
(* Direct calls: a caller constructs the objects, sets the clock and calls  *)
(* the public methods itself, as a test or a user interface does.          *)

\* House.__init__: num_occupants: int = 2
default_num_occupants == 2

\* Values of random.random(), in 1/100: one below and one above every
\* threshold the occupants compare a draw with (0.3, 0.4, 0.5, 0.7, 0.8)
DrawValues == {25, 90}

\* Values of random.gauss(0, 2), in 1/100
NoiseValues == {-400, 0, 400}

\* Hours the caller sets the clock to: both sides of every hour the code
\* compares the clock with, and one hour of every block of the routines
ClockHours == {0, 6, 7, 8, 9, 12, 17, 18, 19, 20, 21, 22, 23}

Activities == {"sleeping", "away", "morning_routine", "lunch", "evening_activities"}

\* The activities whose branch calls random.random()
Drawing == {"morning_routine", "lunch", "evening_activities"}

DrawsOf(activity) ==
    IF activity \in Drawing THEN DrawValues \X DrawValues ELSE {<<0, 0>>}

\* The appliances the caller addresses directly: the first of every type
DirectAppliances ==
    {a \in Appliances : \A b \in Appliances :
        appliance_type(b) = appliance_type(a) => a <= b}

InitDirect ==
    /\ person_class \in {"house", "person"}
    /\ weather_scenario \in {"normal", "heatwave", "cold_snap"}
    /\ simulation_days = 1
    /\ num_occupants = default_num_occupants
    /\ insulation_quality = avg_insulation_quality
    \* random.random() > 0.5 held for the first occupant and not for the others
    /\ energy_conscious = [p \in 1..default_num_occupants |-> p = 1]
    /\ rng = 0
    /\ shuffle_rng = 0
    /\ pc = "direct"
    /\ Constructed

Called(method, self, arg) ==
    /\ pc = "direct"
    /\ error = "none"
    /\ calls < MaxCalls
    /\ calls' = calls + 1
    /\ last_call' = [method |-> method, self |-> self, arg |-> arg,
                     repeat |-> /\ last_call.method = method
                                /\ last_call.self = self
                                /\ last_call.arg = arg]
    /\ UNCHANGED <<simulation_days, num_occupants, daily_consumption,
                   datacollector, schedule_steps, pc, queue, stepped, loop_left, runs,
                   rng, shuffle_rng, tick_start, consumption_by_appliance, summary>>

\* model.hour_of_day = h
SetHour ==
    \E h \in ClockHours :
        /\ Called("set_hour", 0, h)
        /\ hour_of_day' = h
        /\ UNCHANGED <<person_class, weather_scenario, insulation_quality, house_rooms,
                       current_day>>
        /\ ObjectsUnchanged

\* appliance.turn_on()
CallTurnOn ==
    \E a \in DirectAppliances : Called("turn_on", a, 0) /\ SetWorld(turn_on(World, a))

\* appliance.turn_off()
CallTurnOff ==
    \E a \in DirectAppliances : Called("turn_off", a, 0) /\ SetWorld(turn_off(World, a))

\* appliance.step()
CallApplianceStep ==
    \E a \in DirectAppliances :
        Called("Appliance.step", a, 0) /\ SetWorld(Appliance_step(World, a))

\* room.step()
CallRoomStep ==
    \E r \in Rooms : Called("Room.step", r, 0) /\ SetWorld(Room_step(World, r))

\* house.step()
CallHouseStep ==
    \E noise \in NoiseValues : Called("House.step", 1, 0) /\ SetWorld(House_step(World, noise))

\* person.move_to_room(room)
CallMoveToRoom ==
    \E p \in Persons, r \in Rooms :
        Called("move_to_room", p, r) /\ SetWorld(move_to_room(World, p, r))

\* person.perform_activity(activity)
CallPerformActivity ==
    \E p \in Persons, activity \in Activities :
        \E d \in DrawsOf(activity) :
            /\ Called(activity, p, 0)
            /\ SetWorld(perform_activity(World, p, activity, d))

\* person.respond_to_temperature()
CallRespondToTemperature ==
    \E p \in Persons :
        /\ Called("respond_to_temperature", p, 0)
        /\ SetWorld(respond_to_temperature(World, p))

\* person.step()
CallPersonStep ==
    \E p \in Persons :
        \E d \in DrawsOf(generate_routine(person_class, hour_of_day)) :
            /\ Called("Person.step", p, 0)
            /\ SetWorld(Person_step(World, p, d))

\* External temperatures a caller passes to update_temperature, in 1/100
ExternalTemps == {-900, 1500, 3900}

\* House insulations a caller passes: the ends and the middle of the range
\* [0.1, 1.0] that ResidentialEnergyModel.__init__ clamps the draw to
Insulations == {10, 50, 100}

\* room.update_temperature(external_temp, house_insulation)
CallUpdateTemperature ==
    \E r \in Rooms, external_temp \in ExternalTemps, house_insulation \in Insulations :
        /\ Called("update_temperature", r, external_temp)
        /\ SetWorld(update_temperature(World, r, external_temp, house_insulation))

NextDirect ==
    \/ SetHour
    \/ CallTurnOn
    \/ CallTurnOff
    \/ CallApplianceStep
    \/ CallRoomStep
    \/ CallHouseStep
    \/ CallMoveToRoom
    \/ CallPerformActivity
    \/ CallRespondToTemperature
    \/ CallPersonStep

SpecDirect == InitDirect /\ [][NextDirect]_vars

\* Days the caller sets the clock to: the first and the last day of the
\* 30-day period of the normal scenario, its warmest, its coldest and its
\* middle days
ClockDays == {0, 7, 8, 15, 22, 23, 29}

\* model.hour_of_day = h; model.current_day = d
SetClock ==
    \E h \in 0..23, d \in ClockDays :
        /\ Called("set_clock", d, h)
        /\ hour_of_day' = h
        /\ current_day' = d
        /\ UNCHANGED <<person_class, weather_scenario, insulation_quality, house_rooms>>
        /\ ObjectsUnchanged

\* A caller that exercises the weather alone: it sets the clock and steps
\* the house
InitWeather ==
    /\ InitDirect
    /\ person_class = "house"

NextWeather ==
    \/ SetClock
    \/ CallHouseStep

SpecWeather == InitWeather /\ [][NextWeather]_vars

\* The room types a caller takes out of the house: those of one routine
\* branch, or of both branches of the morning routine
AbsentTypes ==
    {{"bedroom"}, {"bathroom"}, {"kitchen"}, {"living room"}, {"bathroom", "kitchen"}}

\* house.rooms = [room for room in house.rooms if room.room_type not in types]
RemoveRooms ==
    \E types \in AbsentTypes :
        /\ Called("remove_rooms", 0, Cardinality(types))
        /\ house_rooms' = SelectSeq(house_rooms, LAMBDA r : room_type(r) \notin types)
        /\ UNCHANGED <<person_class, weather_scenario, insulation_quality, hour_of_day,
                       current_day>>
        /\ ObjectsUnchanged

\* A caller that exercises the occupants in a house lacking rooms
InitRoster ==
    /\ InitDirect
    /\ weather_scenario = "normal"

NextRoster ==
    \/ RemoveRooms
    \/ SetHour
    \/ CallMoveToRoom
    \/ CallPerformActivity
    \/ CallPersonStep

SpecRoster == InitRoster /\ [][NextRoster]_vars

\* A caller that exercises the rooms alone: it switches appliances and calls
\* update_temperature
InitRoom ==
    /\ InitDirect
    /\ person_class = "house"
    /\ weather_scenario = "normal"

NextRoom ==
    \/ CallTurnOn
    \/ CallTurnOff
    \/ CallUpdateTemperature

SpecRoom == InitRoom /\ [][NextRoom]_vars

----------------------------------------------------------------------------
(* Properties *)

AlwaysOnTypes == {"refrigerator", "water heater"}

\* Number of times person p occurs in the list seq
RECURSIVE Count(_, _)
Count(seq, p) ==
    IF seq = << >> THEN 0
    ELSE (IF Head(seq) = p THEN 1 ELSE 0) + Count(Tail(seq), p)

RECURSIVE CountInRooms(_, _)
CountInRooms(r, p) ==
    IF r = 0 THEN 0 ELSE Count(occupants[r], p) + CountInRooms(r - 1, p)

\* C1: in every reachable state, under any interleaving of person steps,
\* appliance steps, house steps and direct turn_on / turn_off calls, every
\* refrigerator and every water heater is on.
C1_AlwaysOn ==
    \A a \in Appliances : appliance_type(a) \in AlwaysOnTypes => is_on[a]

\* C1 witness: turn_off has just been called on a refrigerator or a water
\* heater, which is still on.
C1_Witness ==
    /\ last_call.method = "turn_off"
    /\ appliance_type(last_call.self) \in AlwaysOnTypes
    /\ is_on[last_call.self]

\* C2: every person occurs in at most one room's occupants, and a person
\* whose current_room is set occurs exactly once in that room's occupants.
C2_SingleMembership ==
    \A p \in Persons :
        /\ CountInRooms(Len(room_configs), p) <= 1
        /\ current_room[p] # 0 => Count(occupants[current_room[p]], p) = 1

\* C3: a person whose current_room is unset occurs in no room's occupants;
\* after perform_activity("away") the person is not home, in no room and in
\* no room's occupants.
C3_AbsentNowhere ==
    \A p \in Persons :
        /\ current_room[p] = 0 => CountInRooms(Len(room_configs), p) = 0
        /\ (/\ last_call.self = p
            /\ error = "none"
            /\ \/ last_call.method = "away"
               \/ /\ last_call.method = "Person.step"
                  /\ generate_routine(person_class, hour_of_day) = "away")
              => /\ ~is_home[p]
                 /\ current_room[p] = 0
                 /\ CountInRooms(Len(room_configs), p) = 0

----------------------------------------------------------------------------
(* The engine's tick *)

\* The appliances the smart-appliance policy "base", the default of
\* interface.py's smart_appliances choice, marks smart
IsSmart(a) == appliance_type(a) \in {"lights", "mobile charger"}

AppliancesIn(r) == {a \in Appliances : appliance_room(a) = r}

total_steps == simulation_days * steps_per_day

\* C4: within every tick the house is stepped before every occupant, every
\* occupant before every appliance, and the metrics are collected once per
\* tick after all of them.
C4_FixedOrder ==
    /\ Len(datacollector) = schedule_steps
    /\ pc = "scheduling" =>
          \A g \in stepped :
              /\ g.kind = "person" => Agent("house", 1) \in stepped
              /\ g.kind = "appliance" =>
                    \A p \in Persons : Agent("person", p) \in stepped

\* C5: a room that was empty when a tick began and is empty when the tick
\* ends has, at the end of that tick, every smart appliance off and every
\* non-smart appliance that was on at the beginning still on.
C5_SmartShutoff ==
    (pc = "loop" /\ schedule_steps >= 2) =>
        \A r \in tick_start.empty_rooms \cap EmptyRooms :
            \A a \in AppliancesIn(r) :
                /\ IsSmart(a) => ~is_on[a]
                /\ (~IsSmart(a) /\ tick_start.is_on[a]) => is_on[a]

\* C6: no step of the engine, and no agent step inside it, decreases
\* total_energy_consumed.
C6_NonDecreasing ==
    [][total_energy_consumed' >= total_energy_consumed]_vars

\* C6 witness: inside a tick, appliance steps have added to the total.
C6_Witness ==
    /\ pc = "scheduling"
    /\ \E g \in stepped : g.kind = "appliance" /\ is_on[g.id]
    /\ total_energy_consumed > tick_start.total_energy_consumed

\* C7: every completed engine step adds at least 3.15 kWh to
\* total_energy_consumed, and after k steps the total is at least 3.15 * k.
C7_Baseline ==
    /\ total_energy_consumed >= 315 * schedule_steps
    /\ (pc \in {"loop", "idle"} /\ schedule_steps >= 1) =>
          /\ total_energy_consumed > 0
          /\ total_energy_consumed - tick_start.total_energy_consumed >= 315

\* C7 witness: a second step has completed and added the baseline.
C7_Witness ==
    /\ pc = "loop"
    /\ schedule_steps >= 2
    /\ total_energy_consumed - tick_start.total_energy_consumed >= 315

\* C9: when the first run_simulation of a constructed engine ends, it has
\* made simulation_days * 24 steps, the clock is at day simulation_days,
\* hour 0, and daily_consumption has simulation_days entries.
C9_RunCompletes ==
    (runs = 1 /\ pc \in {"idle", "aborted"}) =>
        /\ schedule_steps = total_steps
        /\ current_day = simulation_days
        /\ hour_of_day = 0
        /\ Len(daily_consumption) = simulation_days

\* C10: once the steps made reached simulation_days * 24, nothing steps the
\* engine again: the step count, the clock, total_energy_consumed and
\* daily_consumption stay as they are.
C10_FinishedTerminal ==
    [][schedule_steps >= total_steps =>
          UNCHANGED <<schedule_steps, hour_of_day, current_day,
                      total_energy_consumed, daily_consumption>>]_vars

----------------------------------------------------------------------------
(* get_summary_statistics *)

\* The sum of total_consumption over the appliances of type t
RECURSIVE TypeTotalFrom(_, _)
TypeTotalFrom(t, a) ==
    IF a > Len(appliance_table) THEN 0
    ELSE (IF appliance_type(a) = t THEN total_consumption[a] ELSE 0)
         + TypeTotalFrom(t, a + 1)

\* What the breakdown of a returned summary reports for type t
Reported(rec, t) ==
    IF t \in DOMAIN rec.consumption_by_appliance
    THEN rec.consumption_by_appliance[t] ELSE 0

RECURSIVE SumReported(_, _)
SumReported(rec, types) ==
    IF types = {} THEN 0
    ELSE LET t == CHOOSE u \in types : TRUE
         IN Reported(rec, t) + SumReported(rec, types \ {t})

\* C11: a summary returned with no step made since reports for every
\* appliance type the sum of total_consumption over the appliances of that
\* type, its breakdown sums to total_energy_consumed, and two summaries
\* returned with no step in between have the same breakdown.
C11_SummaryBreakdown ==
    pc = "idle" =>
        \A i \in 1..Len(summary) :
            summary[i].steps = schedule_steps =>
                /\ \A t \in ApplianceTypes :
                      Reported(summary[i], t) = TypeTotalFrom(t, 1)
                /\ SumReported(summary[i], ApplianceTypes) = total_energy_consumed
                /\ \A j \in 1..Len(summary) :
                      summary[j].steps = schedule_steps =>
                          summary[j].consumption_by_appliance =
                              summary[i].consumption_by_appliance

----------------------------------------------------------------------------
(* Direct calls of the appliances' and rooms' methods *)

\* C12: no call of turn_on or turn_off changes hours_used or
\* total_consumption, and a call of either that repeats the call before it
\* (same method, same appliance) leaves is_on as the first call left it.
C12_Idempotent ==
    [][(calls' = calls + 1 /\ last_call'.method \in {"turn_on", "turn_off"}) =>
          /\ hours_used' = hours_used
          /\ total_consumption' = total_consumption
          /\ last_call'.repeat => is_on' = is_on]_vars

\* C12 witness: turn_off was called twice in a row on an appliance that can
\* be turned off, which is off.
C12_Witness ==
    /\ last_call.method = "turn_off"
    /\ last_call.repeat
    /\ appliance_type(last_call.self) \notin AlwaysOnTypes
    /\ ~is_on[last_call.self]

\* The number of appliances of type t in room r that are on
OnOfType(r, t) ==
    Cardinality({a \in AppliancesIn(r) : appliance_type(a) = t /\ is_on[a]})

\* C13: for every room, external temperature and insulation in [0.1, 1.0],
\* update_temperature yields the blend of the room's and the external
\* temperature plus 0.5 for every heater on and minus 0.5 for every air
\* conditioner on, whatever the order of the room's appliances; the blend
\* lies between the two temperatures and is the room's when insulation is 1.0.
C13_Blend ==
    \A r \in Rooms, e \in ExternalTemps, ins \in Insulations :
        LET t == temperature[r]
            blended == Blend(t, e, ins)
            after == update_temperature(World, r, e, ins).temperature[r]
        IN /\ Min(t, e) <= blended /\ blended <= Max(t, e)
           /\ ins = 100 => blended = t
           /\ after = blended + 50 * OnOfType(r, "heater")
                              - 50 * OnOfType(r, "air conditioner")
           /\ after = HeatCool(World, blended, Reverse(RoomAppliances(r)))

\* C13 witness: update_temperature was called on a room whose heater is on
\* and whose temperature differs from the external temperature passed.
C13_Witness ==
    /\ last_call.method = "update_temperature"
    /\ OnOfType(last_call.self, "heater") = 1
    /\ temperature[last_call.self] # last_call.arg
    /\ calls = MaxCalls

----------------------------------------------------------------------------
(* Weather *)

\* C14: at the hour of the clock, for every day of the 30-day period and
\* every noise draw, the external temperature of the heatwave scenario is
\* strictly higher than that of the normal scenario, and is_extreme_event is
\* true exactly for heatwave and cold_snap.
C14_HeatwaveWarmer ==
    /\ \A d \in 0..29, noise \in NoiseValues :
          get_current_weather(hour_of_day, d, "heatwave", noise).temperature
              > get_current_weather(hour_of_day, d, "normal", noise).temperature
    /\ \A noise \in NoiseValues :
          get_current_weather(hour_of_day, current_day, weather_scenario,
                              noise).is_extreme_event
              <=> weather_scenario \in {"heatwave", "cold_snap"}

\* C14 witness: the house was stepped in a heatwave on the warmest day of
\* the normal scenario, and the kitchen took up the external temperature.
C14_Witness ==
    /\ last_call.method = "House.step"
    /\ weather_scenario = "heatwave"
    /\ current_day = 7
    /\ hour_of_day = 12
    /\ temperature[1] > 1500

----------------------------------------------------------------------------
(* Occupants *)

\* The room types the branch of an activity looks up at hour h
TargetTypes(activity, h) ==
    CASE activity = "sleeping" -> {"bedroom"}
      [] activity = "morning_routine" ->
            {"bathroom"} \cup (IF 7 <= h /\ h <= 8 THEN {"kitchen"} ELSE {})
      [] activity = "lunch" -> {"kitchen"}
      [] activity = "evening_activities" ->
            IF 19 <= h /\ h <= DinnerEnd(person_class) THEN {"kitchen"} ELSE {"living room"}
      [] OTHER -> {}

\* The activity a call performs: the one passed to perform_activity, or the
\* one Person.step reads from the routine
ActivityOf(call) ==
    IF call.method = "Person.step"
    THEN generate_routine(person_class, hour_of_day)
    ELSE call.method

HouseTypes == {room_type(house_rooms[i]) : i \in 1..Len(house_rooms)}

\* C15: a call of perform_activity or Person.step whose activity targets
\* only room types the house has no room of raises no error and leaves the
\* person's current_room, every room's occupants and the lights, stoves,
\* dishwashers and tvs as they were.
C15_AbsentRoomNoOp ==
    [][(/\ calls' = calls + 1
        /\ last_call'.method \in Activities \cup {"Person.step"}
        /\ TargetTypes(ActivityOf(last_call'), hour_of_day) # {}
        /\ TargetTypes(ActivityOf(last_call'), hour_of_day) \cap HouseTypes = {})
       => /\ error' = "none"
          /\ current_room' = current_room
          /\ occupants' = occupants
          /\ \A a \in Appliances :
                appliance_type(a) \in {"lights", "stove", "dishwasher", "tv"}
                    => is_on'[a] = is_on[a]]_vars

\* C15 witness: a person standing in the living room at a sleeping hour was
\* stepped in a house without bedroom, and stayed.
C15_Witness ==
    /\ last_call.method = "Person.step"
    /\ generate_routine(person_class, hour_of_day) = "sleeping"
    /\ "bedroom" \notin HouseTypes
    /\ error = "none"
    /\ current_room[last_call.self] = 2

----------------------------------------------------------------------------
(* The clock *)

IsPrefix(s1, s2) == Len(s1) <= Len(s2) /\ SubSeq(s2, 1, Len(s1)) = s1

\* C16: hour_of_day is in 0..23, the steps made are current_day * 24 +
\* hour_of_day, daily_consumption has current_day entries, its i-th entry is
\* the total_energy_consumed collected by the last step of day i, and its
\* entries do not decrease; current_day grows by one exactly on the step
\* that takes hour_of_day from 23 to 0 and never otherwise changes, and
\* daily_consumption is only ever appended to.
C16_Clock ==
    /\ [](/\ hour_of_day \in 0..23
          /\ schedule_steps = current_day * steps_per_day + hour_of_day
          /\ Len(daily_consumption) = current_day
          /\ \A i \in 1..Len(daily_consumption) :
                /\ daily_consumption[i] = datacollector[steps_per_day * i].total_energy
                /\ i > 1 => daily_consumption[i - 1] <= daily_consumption[i])
    /\ [][/\ current_day' \in {current_day, current_day + 1}
          /\ current_day' = current_day + 1 <=> (hour_of_day = 23 /\ hour_of_day' = 0)
          /\ schedule_steps' # schedule_steps =>
                hour_of_day' = (hour_of_day + 1) % steps_per_day
          /\ IsPrefix(daily_consumption, daily_consumption')]_vars

\* C16 witness: the second day has ended.
C16_Witness ==
    /\ current_day = 2
    /\ hour_of_day = 0
    /\ Len(daily_consumption) = 2
    /\ daily_consumption[2] > daily_consumption[1]

LightsIn(r) == {a \in AppliancesIn(r) : appliance_type(a) = "lights"}

\* C17: after move_to_room(r) at an hour before 7 or after 19, or into a
\* room without window at any hour, the call has raised no error and every
\* lights appliance of r is on.
C17_LightsOnEntering ==
    (/\ last_call.method = "move_to_room"
     /\ \/ hour_of_day < 7
        \/ hour_of_day > 19
        \/ ~room_configs[last_call.arg].has_window)
    => /\ error = "none"
       /\ \A a \in LightsIn(last_call.arg) : is_on[a]

\* C18: when a person in room A calls move_to_room(B), B other than A: if
\* the person is energy conscious and A has no other occupant, A's
\* occupants are empty and A's lights off after the call; otherwise A's
\* lights are as they were.
C18_LightsOffLeaving ==
    [][(/\ calls' = calls + 1
        /\ last_call'.method = "move_to_room"
        /\ current_room[last_call'.self] # 0
        /\ current_room[last_call'.self] # last_call'.arg)
       => LET p == last_call'.self
              A == current_room[p]
          IN IF energy_conscious[p] /\ \A i \in 1..Len(occupants[A]) : occupants[A][i] = p
             THEN /\ occupants'[A] = << >>
                  /\ \A a \in LightsIn(A) : ~is_on'[a]
             ELSE \A a \in LightsIn(A) : is_on'[a] = is_on[a]]_vars

\* C19: when a call that returns takes an energy-conscious person out of
\* room A, by move_to_room, perform_activity or step, and leaves A without
\* occupants, A's lights are off after the call.
C19_LightsOffVacating ==
    [][(/\ calls' = calls + 1
        /\ last_call'.method \in Activities \cup {"Person.step", "move_to_room"}
        /\ error' = "none"
        /\ energy_conscious[last_call'.self]
        /\ current_room[last_call'.self] # 0
        /\ current_room'[last_call'.self] # current_room[last_call'.self]
        /\ occupants'[current_room[last_call'.self]] = << >>)
       => \A a \in LightsIn(current_room[last_call'.self]) : ~is_on'[a]]_vars

C21_Sleeping ==
    [][(/\ calls' = calls + 1
        /\ last_call'.method \in Activities \cup {"Person.step"}
        /\ error' = "none")
       => LET p == last_call'.self
              bedroom == get_room_by_type(World, "bedroom")
          IN /\ (/\ last_call'.method = "Person.step"
                 /\ generate_routine(person_class, hour_of_day) = "sleeping")
                => /\ bedroom # 0
                   /\ current_room'[p] = bedroom
                   /\ current_room[p] = bedroom =>
                         /\ occupants' = occupants
                         /\ \A r \in Rooms : \A a \in LightsIn(r) :
                               is_on'[a] = is_on[a]
             /\ (/\ current_room'[p] # current_room[p]
                 /\ current_room'[p] # 0
                 /\ room_type(current_room'[p]) = "bedroom")
                => current_room'[p] = bedroom]_vars

\* C21 witness: a person already in the first bedroom was stepped again at
\* a sleeping hour.
C21_Witness ==
    /\ last_call.method = "Person.step"
    /\ last_call.repeat
    /\ generate_routine(person_class, hour_of_day) = "sleeping"
    /\ current_room[last_call.self] = get_room_by_type(World, "bedroom")
    /\ occupants[current_room[last_call.self]] = <<last_call.self>>

----------------------------------------------------------------------------
(* The diurnal term *)

\* The external temperature of the day of the clock at hour h, without noise
NoiseFree(h) == get_current_weather(h, current_day, weather_scenario, 0).temperature

\* C22 as stated: over the hours 0..23 the noise-free external temperature
\* of a day, which varies with the diurnal term alone, is highest at hour 18.
C22_PeakAt18 ==
    \A h \in 0..23 : NoiseFree(h) <= NoiseFree(18)

\* C22 as amended: over the hours 0..23 the noise-free external temperature
\* of a day is highest at hour 12 and nowhere else, lowest at hour 0, and
\* at hour 18 it equals its value at hour 6, the day's base temperature.
C22_PeakAt12 ==
    /\ \A h \in 0..23 : h # 12 => NoiseFree(h) < NoiseFree(12)
    /\ \A h \in 0..23 : NoiseFree(0) <= NoiseFree(h)
    /\ NoiseFree(18) = NoiseFree(6)
    /\ NoiseFree(12) - NoiseFree(18) = 500

\* C22 witness: the house was stepped at hour 12 without noise and the
\* kitchen, at its initial temperature before, took up the day's highest
\* external temperature.
C22_Witness ==
    /\ last_call.method = "House.step"
    /\ hour_of_day = 12
    /\ calls = 2
    /\ temperature[1] = Blend(Room_init_temperature(1), NoiseFree(12), insulation_quality)

----------------------------------------------------------------------------
(* Metrics and energy accounts of a run *)

\* C23: there is one metrics record per step made; the i-th record has the
\* hour and day of the i-th tick, counted from day 0, hour 0, and its cost is
\* its total energy times energy_price_per_kwh; a record is added only when
\* every agent of the tick was stepped, with the hour and day of the clock
\* before it advances and the total_energy_consumed of that moment.
C23_MetricsRecord ==
    /\ [](/\ Len(datacollector) = schedule_steps
          /\ \A i \in 1..Len(datacollector) :
                /\ datacollector[i].hour_of_day = (i - 1) % steps_per_day
                /\ datacollector[i].day = (i - 1) \div steps_per_day
                /\ datacollector[i].energy_cost =
                       datacollector[i].total_energy * energy_price_per_kwh)
    /\ [][datacollector' # datacollector =>
             /\ Len(datacollector') = Len(datacollector) + 1
             /\ SubSeq(datacollector', 1, Len(datacollector)) = datacollector
             /\ queue = << >>
             /\ stepped = {schedule_agents[i] : i \in 1..Len(schedule_agents)}
             /\ datacollector'[Len(datacollector')].hour_of_day = hour_of_day
             /\ datacollector'[Len(datacollector')].day = current_day
             /\ datacollector'[Len(datacollector')].total_energy = total_energy_consumed
             /\ total_energy_consumed' = total_energy_consumed]_vars

\* C23 witness: the first record of the second day was collected.
C23_Witness ==
    /\ Len(datacollector) = steps_per_day + 1
    /\ datacollector[steps_per_day + 1].day = 1
    /\ datacollector[steps_per_day + 1].hour_of_day = 0
    /\ datacollector[steps_per_day + 1].total_energy > datacollector[1].total_energy

\* C24: total_energy_consumed is the sum of total_consumption over all
\* appliances.
C24_EnergySum ==
    total_energy_consumed = SumSeq([a \in Appliances |-> total_consumption[a]])

\* C24 witness: lights and a stove have consumed beside the appliances that
\* are always on.
C24_Witness ==
    /\ \E a \in Appliances : appliance_type(a) = "lights" /\ total_consumption[a] > 0
    /\ \E a \in Appliances : appliance_type(a) = "stove" /\ total_consumption[a] > 0

\* C25: every appliance's total_consumption is its hours_used times its
\* power; after k steps every appliance has hours_used <= k and every
\* refrigerator and water heater has hours_used = k.
C25_HoursUsed ==
    /\ \A a \in Appliances :
          total_consumption[a] = hours_used[a] * power_consumption(a)
    /\ pc \in {"loop", "idle"} =>
          \A a \in Appliances :
              /\ hours_used[a] <= schedule_steps
              /\ appliance_type(a) \in AlwaysOnTypes => hours_used[a] = schedule_steps

\* C25 witness: after some steps an appliance has been on for some of them
\* only.
C25_Witness ==
    /\ pc = "loop"
    /\ schedule_steps >= 2
    /\ \E a \in Appliances : 0 < hours_used[a] /\ hours_used[a] < schedule_steps
    /\ \E a \in Appliances : hours_used[a] = schedule_steps

MonotoneTypes == {"stove", "dishwasher", "tv", "mobile charger"}

\* C26: no step of a run turns off a stove, dishwasher, tv or mobile charger
\* that is on, and the step of such an appliance that is on adds its power
\* to its total_consumption.
C26_StaysOn ==
    [][\A a \in Appliances :
          (appliance_type(a) \in MonotoneTypes /\ is_on[a]) =>
              /\ is_on'[a]
              /\ (/\ pc = "scheduling" /\ queue # << >>
                  /\ Head(queue) = Agent("appliance", a)
                  /\ queue' = Tail(queue))
                 => total_consumption'[a] = total_consumption[a] + power_consumption(a)]_vars

\* C26 witness: a stove has been on for three ticks and is still on.
C26_Witness ==
    \E a \in Appliances :
        appliance_type(a) = "stove" /\ is_on[a] /\ hours_used[a] >= 3

RECURSIVE SumPower(_)
SumPower(S) ==
    IF S = {} THEN 0
    ELSE LET a == CHOOSE b \in S : TRUE
         IN power_consumption(a) + SumPower(S \ {a})

AwayHour(h) == generate_routine(person_class, h) = "away"

\* C27: in a tick at an hour whose routine activity is 'away', no appliance
\* changes its is_on, and the energy the tick adds is the summed power of
\* the appliances that were on when it began.
C27_AwayFrame ==
    /\ (pc = "scheduling" /\ AwayHour(hour_of_day)) => is_on = tick_start.is_on
    /\ (/\ pc \in {"loop", "idle"}
        /\ schedule_steps >= 1
        /\ AwayHour((hour_of_day + steps_per_day - 1) % steps_per_day))
       => /\ is_on = tick_start.is_on
          /\ total_energy_consumed - tick_start.total_energy_consumed
                = SumPower({a \in Appliances : tick_start.is_on[a]})

\* C27 witness: a tick of an away hour ended with nobody home and a heater
\* and lights running.
C27_Witness ==
    /\ pc = "loop"
    /\ AwayHour((hour_of_day + steps_per_day - 1) % steps_per_day)
    /\ \A p \in Persons : ~is_home[p]
    /\ \E a \in Appliances : appliance_type(a) = "heater" /\ is_on[a]
    /\ \E a \in Appliances : appliance_type(a) = "lights" /\ is_on[a]

\* C28: a person who is not home is in no room.
C28_NotHomeNoRoom ==
    \A p \in Persons : ~is_home[p] => current_room[p] = 0

\* C28 witness: at an away hour of the afternoon, after lunch at home, a
\* person was stepped and is not home.
C28_Witness ==
    /\ pc = "scheduling"
    /\ hour_of_day = 14
    /\ \E p \in Persons :
          Agent("person", p) \in stepped /\ ~is_home[p] /\ current_room[p] = 0

NeverOperatedTypes == {"computer", "washing machine"}

\* C29: a computer or washing machine is never on, its hours_used and
\* total_consumption are 0, and no summary's breakdown lists its type.
C29_NeverOn ==
    /\ \A a \in Appliances :
          appliance_type(a) \in NeverOperatedTypes =>
              ~is_on[a] /\ hours_used[a] = 0 /\ total_consumption[a] = 0
    /\ \A i \in 1..Len(summary) :
          DOMAIN summary[i].consumption_by_appliance \cap NeverOperatedTypes = {}

\* C29 witness: a summary returned after a day lists lights and heaters but
\* no computer, in a house that has computers.
C29_Witness ==
    /\ Len(summary) >= 1
    /\ summary[1].steps >= steps_per_day
    /\ {"lights", "heater"} \subseteq DOMAIN summary[1].consumption_by_appliance
    /\ "computer" \notin DOMAIN summary[1].consumption_by_appliance
    /\ \E a \in Appliances : appliance_type(a) = "computer"

====
